---- MODULE Spec2Model ----
(***************************************************************************)
(* A model of the synthetic-market generators of the Transparent Market    *)
(* Platform demo: app.run_simulation, the live_bidding round loop, the     *)
(* market_lens and governance_in_loop loops, app.main's session handling   *)
(* and the Live Bidding page.                                              *)
(*                                                                         *)
(* Numbers are fixed point.  Slider values are in hundredths (0.15 is 15), *)
(* Governance Sensitivity in tenths, bids in cents, lambda in thousandths, *)
(* profits in thousandths of a dollar (floor division stands for the       *)
(* rounding of a double), CVaR in thousandths.  A draw of np.random is a   *)
(* nondeterministic choice from a small set: rand() in thousandths,        *)
(* uniform(0.8, 1.2) and uniform(0.05, 0.15) in hundredths, randn() in     *)
(* tenths.                                                                 *)
(***************************************************************************)
EXTENDS Integers, Sequences, FiniteSets, TLC

VARIABLES
    prog,             \* which script runs: "app", "live", "market_lens", "governance", "main", "page"
    pc,               \* position of the script
    args,             \* the arguments / slider values of the running simulation
    r,                \* loop variable of `for r in range(n_rounds)`
    active_agents,    \* active_agents[i]
    profits,          \* profits[i]
    cvar_risks,       \* cvar_risks[i]
    activity_counts,  \* activity_counts[i]
    bids_data,        \* list of round_bids dicts
    round_reports,    \* list of round reports
    lambda_trace,     \* list of lambda rows (lambda_values in governance_in_loop)
    alerts,           \* governance_in_loop: list of booleans
    result,           \* what the script returned / displayed at its end
    session,          \* st.session_state of app.main
    params,           \* app.main's local `params`, bound at the top of the script run
    page,             \* st.session_state and outcome of pages/1_Live_Bidding.py
    rng               \* numpy's global generator, where a script seeds it

vars == <<prog, pc, args, r, active_agents, profits, cvar_risks, activity_counts,
          bids_data, round_reports, lambda_trace, alerts, result, session, params, page,
          rng>>

-----------------------------------------------------------------------------
(* Bounds of the model *)

MaxRounds == 2        \* n_rounds of run_simulation / live_bidding ranges over 1..MaxRounds

(* Program constants *)

MinAgents == 2        \* slider "Agents", 2, 10
MinRounds == 1        \* slider "Rounds", 1, 20
ClipLow == 10         \* np.clip(lambdas, 0.01, None), in thousandths

Agents(n) == 1 .. n

AgentName == <<"Agent 1", "Agent 2", "Agent 3", "Agent 4">>   \* f"Agent {i+1}"

-----------------------------------------------------------------------------
(* Values *)

NaN == [nan |-> TRUE, val |-> 0]                 \* np.nan
Num(v) == [nan |-> FALSE, val |-> v]             \* a number (a bid in cents)
None == <<>>                                     \* Python None
Some(v) == <<v>>

Max2(a, b) == IF a >= b THEN a ELSE b
Abs(x) == IF x < 0 THEN -x ELSE x

RECURSIVE SumSeq(_)
SumSeq(s) == IF s = <<>> THEN 0 ELSE Head(s) + SumSeq(Tail(s))

Zeros(n) == [i \in 1 .. n |-> 0]                 \* np.zeros(n)

(* np.round(x, 2) of x = num / (100 * den) dollars, as cents: round half to even *)
RoundHalfEven(num, den) ==
    LET q == num \div den
        rem == num % den
    IN  IF 2 * rem < den THEN q
        ELSE IF 2 * rem > den THEN q + 1
        ELSE IF q % 2 = 0 THEN q ELSE q + 1

(* 100 * sin(r / 3), rounded, for r = 0 .. 29 *)
SinTable == <<0, 33, 62, 84, 97, 100, 91, 72, 46, 14, -19, -50, -76, -93, -100,
              -96, -81, -58, -28, 5, 37, 66, 87, 98, 99, 89, 69, 41, 9, -24>>
Sin3(rr) == SinTable[rr + 1]

-----------------------------------------------------------------------------
(* Random draws of one agent in one round *)

AgentDraw ==
    { [noise |-> -20, coin |-> 1,   u |-> 100, z |-> 0,   m |-> 10, risk |-> 0],
      [noise |-> 10,  coin |-> 500, u |-> 120, z |-> 10,  m |-> 15, risk |-> 10],
      [noise |-> 0,   coin |-> 300, u |-> 80,  z |-> -12, m |-> 5,  risk |-> -10],
      [noise |-> -5,  coin |-> 100, u |-> 100, z |-> 0,   m |-> 10, risk |-> 5] }

RoundDraws(n) == [Agents(n) -> AgentDraw]

(* Slider configurations the simulations are run with *)
Scenarios == {"Normal", "Catastrophe", "Capital Squeeze"}

DefaultParams ==
    [n_agents |-> MinAgents, n_rounds |-> MinRounds, scenario |-> "Normal",
     bid_volatility |-> 15, market_intensity |-> 100, cvar_target |-> 50,
     base_lambda |-> 100, alert_threshold |-> 250, governance_sensitivity |-> 10]

StressParams ==
    [n_agents |-> MinAgents, n_rounds |-> MinRounds, scenario |-> "Catastrophe",
     bid_volatility |-> 50, market_intensity |-> 200, cvar_target |-> 10,
     base_lambda |-> 10, alert_threshold |-> 100, governance_sensitivity |-> 20]

CalmParams ==
    [n_agents |-> MinAgents, n_rounds |-> MinRounds, scenario |-> "Capital Squeeze",
     bid_volatility |-> 5, market_intensity |-> 50, cvar_target |-> 90,
     base_lambda |-> 300, alert_threshold |-> 500, governance_sensitivity |-> 1]

ParamCfgs ==
    { [p EXCEPT !.n_rounds = k] : p \in {DefaultParams, StressParams, CalmParams},
                                  k \in MinRounds .. MaxRounds }

-----------------------------------------------------------------------------
(* The dual variables of one round *)

(* a variant without the lower bound *)
ClipOff(x, lo) == x

Clip(x, lo) == IF x < lo THEN lo ELSE x          \* np.clip(x, lo, None)

Lambdas(a, rr, d) ==
    [i \in Agents(a.n_agents) |->
        Clip(10 * a.base_lambda + 30 * d[i].noise
               + Sin3(rr) * a.governance_sensitivity, ClipLow)]

(* The bidding of one agent in one round *)

Withdraws(a, dr) == 20 * dr.coin < a.bid_volatility * (100 - a.cvar_target)

Bid(a, dr) ==
    RoundHalfEven(dr.u * (100000 + dr.z * a.bid_volatility * a.market_intensity), 1000)

(* a variant without the max(0, ...) *)
CvarIncrementSigned(a, dr) == dr.risk * (100 - a.cvar_target) * 5

CvarIncrement(a, dr) == Max2(0, dr.risk * (100 - a.cvar_target) * 5)

AppProfit(bid, dr, lam) == (bid * dr.m * 1000) \div (10000 + lam)

LiveProfit(bid, dr, lam) == (bid * dr.m) \div 10

-----------------------------------------------------------------------------
(* Python's max / min and the dict of one round *)

(* a > b on floats: False whenever a NaN is involved *)
Gt(a, b) == ~a.nan /\ ~b.nan /\ a.val > b.val

(* max(entries, key=...): the first entry no later entry is greater than *)
RECURSIVE PyMaxFrom(_, _)
PyMaxFrom(entries, best) ==
    IF entries = <<>> THEN best
    ELSE PyMaxFrom(Tail(entries),
                   IF Gt(Head(entries).val, best.val) THEN Head(entries) ELSE best)
PyMaxBy(entries) == PyMaxFrom(Tail(entries), Head(entries))

RECURSIVE MaxOf(_)
MaxOf(s) == IF Len(s) = 1 THEN s[1] ELSE Max2(s[1], MaxOf(Tail(s)))
RECURSIVE MinOf(_)
MinOf(s) == IF Len(s) = 1 THEN s[1]
            ELSE LET m == MinOf(Tail(s)) IN IF s[1] <= m THEN s[1] ELSE m

IsNumber(v) == TRUE                   \* isinstance(v, (int, float)): bids, NaN and r + 1 all are
NotNa(v) == ~v.nan                    \* not pd.isna(v)

(* The agent places a bid in this round *)
PlacesBid(a, act, d, i) == act[i] /\ ~Withdraws(a, d[i])
(* The agent withdraws in this round *)
WithdrawsNow(a, act, d, i) == act[i] /\ Withdraws(a, d[i])

(* a variant that decides activity from this round's coin alone *)
NextActiveForgets(a, act, d) == [i \in Agents(a.n_agents) |-> ~Withdraws(a, d[i])]

NextActive(a, act, d) == [i \in Agents(a.n_agents) |-> PlacesBid(a, act, d, i)]

Cells(a, act, d) ==
    [i \in Agents(a.n_agents) |->
        IF PlacesBid(a, act, d, i) THEN Num(Bid(a, d[i])) ELSE NaN]

RECURSIVE WithdrawnFrom(_, _, _, _)
WithdrawnFrom(a, act, d, i) ==
    IF i > a.n_agents THEN <<>>
    ELSE (IF WithdrawsNow(a, act, d, i) THEN <<AgentName[i]>> ELSE <<>>)
         \o WithdrawnFrom(a, act, d, i + 1)
WithdrawnAgents(a, act, d) == WithdrawnFrom(a, act, d, 1)

(* a variant that numbers the rounds as the loop variable does *)
RoundKeyOfLoop(rr) == [key |-> "Round", val |-> Num(100 * rr)]

RoundKey(rr) == [key |-> "Round", val |-> Num(100 * (rr + 1))]    \* round_bids["Round"] = r + 1

RoundBids(a, rr, act, d) ==
    [i \in Agents(a.n_agents) |-> [key |-> AgentName[i], val |-> Cells(a, act, d)[i]]]
    \o <<RoundKey(rr)>>

(* active_bids = [v for v in round_bids.values() if isinstance(...) and not isna(v)] *)
ActiveBids(round_bids) ==
    LET kept == SelectSeq(round_bids, LAMBDA e : IsNumber(e.val) /\ NotNa(e.val))
    IN  [k \in 1 .. Len(kept) |-> kept[k].val.val]

HighestBid(round_bids) ==
    IF ActiveBids(round_bids) # <<>> THEN Some(MaxOf(ActiveBids(round_bids))) ELSE None
LowestBid(round_bids) ==
    IF ActiveBids(round_bids) # <<>> THEN Some(MinOf(ActiveBids(round_bids))) ELSE None
TopAgent(round_bids) == PyMaxBy(round_bids).key

(* f"{x if x else 'N/A'}": None and 0.0 are shown as N/A (None here) *)
Shown(x) == IF x = None \/ x = Some(0) THEN None ELSE x

AppReport(a, rr, act, d) ==
    LET rb == RoundBids(a, rr, act, d)
    IN  [round |-> rr + 1, highest_bid |-> HighestBid(rb), lowest_bid |-> LowestBid(rb),
         top_agent |-> TopAgent(rb), withdrawn |-> WithdrawnAgents(a, act, d)]

LiveReport(a, rr, act, d) ==
    LET rb == RoundBids(a, rr, act, d)
    IN  [round |-> rr + 1, highest_bid |-> Shown(HighestBid(rb)),
         lowest_bid |-> Shown(LowestBid(rb)),
         top_agent |-> TopAgent(rb), withdrawn |-> WithdrawnAgents(a, act, d)]

(* The accumulators after one round *)
AppProfits(a, act, d, lam, prof) ==
    [i \in Agents(a.n_agents) |->
        IF PlacesBid(a, act, d, i)
        THEN prof[i] + AppProfit(Bid(a, d[i]), d[i], lam[i]) ELSE prof[i]]

LiveProfits(a, act, d, lam, prof) ==
    [i \in Agents(a.n_agents) |->
        IF PlacesBid(a, act, d, i)
        THEN prof[i] + LiveProfit(Bid(a, d[i]), d[i], lam[i]) ELSE prof[i]]

NextCvar(a, act, d, cv) ==
    [i \in Agents(a.n_agents) |->
        IF PlacesBid(a, act, d, i) THEN cv[i] + CvarIncrement(a, d[i]) ELSE cv[i]]

(* a variant that counts every agent still active at the start of the round *)
NextActivityOfActive(a, act, d, cnt) ==
    [i \in Agents(a.n_agents) |-> IF act[i] THEN cnt[i] + 1 ELSE cnt[i]]

NextActivity(a, act, d, cnt) ==
    [i \in Agents(a.n_agents) |->
        IF PlacesBid(a, act, d, i) THEN cnt[i] + 1 ELSE cnt[i]]

-----------------------------------------------------------------------------
(* What the simulations return *)

(* pd.DataFrame(bids_data).set_index("Round") *)
BidsDf(a, data) ==
    [k \in 1 .. Len(data) |->
        [Round |-> data[k][a.n_agents + 1].val.val \div 100,
         cells |-> [i \in Agents(a.n_agents) |-> data[k][i].val]]]

SummaryDf(a, prof, cv, cnt) ==
    [i \in Agents(a.n_agents) |->
        [Agent |-> AgentName[i], Profit |-> prof[i], CVaR |-> cv[i],
         ActivityRate |-> <<cnt[i], a.n_rounds>>]]

(* pd.DataFrame(lambda_trace, ...) with index np.arange(1, n_rounds + 1) *)
DualVarDf(a, trace) == [k \in 1 .. a.n_rounds |-> [index |-> k, row |-> trace[k]]]

NoResult == [kind |-> "none"]
NoSession == [kind |-> "none"]
NoParams == [kind |-> "none"]
NoPage == [kind |-> "none"]
NoRng == [kind |-> "none"]                       \* the generator, where its state is not followed

-----------------------------------------------------------------------------
(* app.run_simulation *)

(* a variant that keeps the profits of the call before *)
CarriedTrackers(a) ==
    [active_agents |-> [i \in Agents(a.n_agents) |-> TRUE],
     profits |-> IF Len(profits) = a.n_agents THEN profits ELSE Zeros(a.n_agents),
     cvar_risks |-> Zeros(a.n_agents),
     activity_counts |-> Zeros(a.n_agents),
     bids_data |-> <<>>,
     round_reports |-> <<>>,
     lambda_trace |-> <<>>]

(* the locals of run_simulation, and the trackers of live_bidding, as a run starts *)
FreshTrackers(a) ==
    [active_agents |-> [i \in Agents(a.n_agents) |-> TRUE],
     profits |-> Zeros(a.n_agents),
     cvar_risks |-> Zeros(a.n_agents),
     activity_counts |-> Zeros(a.n_agents),
     bids_data |-> <<>>,
     round_reports |-> <<>>,
     lambda_trace |-> <<>>]

Trackers ==
    [active_agents |-> active_agents, profits |-> profits, cvar_risks |-> cvar_risks,
     activity_counts |-> activity_counts, bids_data |-> bids_data,
     round_reports |-> round_reports, lambda_trace |-> lambda_trace]

(* one iteration of `for r in range(n_rounds)` with the draws d *)
AppRoundStep(t, a, rr, d) ==
    LET lam == Lambdas(a, rr, d) IN
    [active_agents |-> NextActive(a, t.active_agents, d),
     profits |-> AppProfits(a, t.active_agents, d, lam, t.profits),
     cvar_risks |-> NextCvar(a, t.active_agents, d, t.cvar_risks),
     activity_counts |-> NextActivity(a, t.active_agents, d, t.activity_counts),
     bids_data |-> Append(t.bids_data, RoundBids(a, rr, t.active_agents, d)),
     round_reports |-> Append(t.round_reports, AppReport(a, rr, t.active_agents, d)),
     lambda_trace |-> Append(t.lambda_trace, lam)]

(* return bids_df, summary_df, round_reports, dual_var_df *)
SimResult(a, t) ==
    [kind |-> "run_simulation",
     bids_df |-> BidsDf(a, t.bids_data),
     summary_df |-> SummaryDf(a, t.profits, t.cvar_risks, t.activity_counts),
     round_reports |-> t.round_reports,
     dual_var_df |-> DualVarDf(a, t.lambda_trace)]

(* the whole call, with the draws of round k in tape[k] *)
RECURSIVE RunFrom(_, _, _, _)
RunFrom(t, a, rr, tape) ==
    IF rr >= a.n_rounds THEN t
    ELSE RunFrom(AppRoundStep(t, a, rr, tape[rr + 1]), a, rr + 1, tape)
RunSimulation(a, tape) == SimResult(a, RunFrom(FreshTrackers(a), a, 0, tape))

SetTrackers(t) ==
    /\ active_agents' = t.active_agents
    /\ profits' = t.profits
    /\ cvar_risks' = t.cvar_risks
    /\ activity_counts' = t.activity_counts
    /\ bids_data' = t.bids_data
    /\ round_reports' = t.round_reports
    /\ lambda_trace' = t.lambda_trace

SetTrackersNow(t) ==
    /\ active_agents = t.active_agents
    /\ profits = t.profits
    /\ cvar_risks = t.cvar_risks
    /\ activity_counts = t.activity_counts
    /\ bids_data = t.bids_data
    /\ round_reports = t.round_reports
    /\ lambda_trace = t.lambda_trace

InitApp ==
    /\ prog = "app"
    /\ pc = "loop"
    /\ args \in ParamCfgs
    /\ r = 0
    /\ active_agents = [i \in Agents(args.n_agents) |-> TRUE]
    /\ profits = Zeros(args.n_agents)
    /\ cvar_risks = Zeros(args.n_agents)
    /\ activity_counts = Zeros(args.n_agents)
    /\ bids_data = <<>>
    /\ round_reports = <<>>
    /\ lambda_trace = <<>>
    /\ alerts = <<>>
    /\ result = NoResult
    /\ session = NoSession
    /\ params = NoParams
    /\ page = NoPage
    /\ rng = NoRng

(* one iteration of `for r in range(n_rounds)`, in a direct call or under main *)
SimRound ==
    /\ prog \in {"app", "main"} /\ pc = "loop" /\ r < args.n_rounds
    /\ \E d \in RoundDraws(args.n_agents) :
          SetTrackers(AppRoundStep(Trackers, args, r, d))
    /\ r' = r + 1
    /\ UNCHANGED <<rng, prog, pc, args, alerts, result, session, params, page>>

SimReturn ==
    /\ prog = "app" /\ pc = "loop" /\ r = args.n_rounds
    /\ pc' = "done"
    /\ result' = SimResult(args, Trackers)
    /\ UNCHANGED <<rng, prog, args, r, active_agents, profits, cvar_risks, activity_counts,
                   bids_data, round_reports, lambda_trace, alerts, session, params, page>>

(* a call of run_simulation alone; the loop and the return are straight-line code, so
   the call keeps taking steps until it has returned *)
SpecCall ==
    InitApp /\ [][SimRound \/ SimReturn]_vars /\ WF_vars(SimRound \/ SimReturn)

-----------------------------------------------------------------------------
(* live_bidding, after "Run Simulation" is pressed *)

InitLive ==
    /\ prog = "live"
    /\ pc = "loop"
    /\ args \in ParamCfgs
    /\ r = 0
    /\ active_agents = [i \in Agents(args.n_agents) |-> TRUE]
    /\ profits = Zeros(args.n_agents)
    /\ cvar_risks = Zeros(args.n_agents)
    /\ activity_counts = Zeros(args.n_agents)
    /\ bids_data = <<>>
    /\ round_reports = <<>>
    /\ lambda_trace = <<>>
    /\ alerts = <<>>
    /\ result = NoResult
    /\ session = NoSession
    /\ params = NoParams
    /\ page = NoPage
    /\ rng = NoRng

(* a variant that discounts the profit as run_simulation does *)
LiveRoundStepDiscounted(t, a, rr, d) ==
    [t EXCEPT
       !.active_agents = NextActive(a, t.active_agents, d),
       !.profits = AppProfits(a, t.active_agents, d, Lambdas(a, rr, d), t.profits),
       !.cvar_risks = NextCvar(a, t.active_agents, d, t.cvar_risks),
       !.activity_counts = NextActivity(a, t.active_agents, d, t.activity_counts),
       !.bids_data = Append(t.bids_data, RoundBids(a, rr, t.active_agents, d)),
       !.round_reports = Append(t.round_reports, LiveReport(a, rr, t.active_agents, d))]

(* one iteration of the round loop of live_bidding on the trackers t *)
LiveRoundStep(t, a, rr, d) ==
    [t EXCEPT
       !.active_agents = NextActive(a, t.active_agents, d),
       !.profits = LiveProfits(a, t.active_agents, d, Zeros(a.n_agents), t.profits),
       !.cvar_risks = NextCvar(a, t.active_agents, d, t.cvar_risks),
       !.activity_counts = NextActivity(a, t.active_agents, d, t.activity_counts),
       !.bids_data = Append(t.bids_data, RoundBids(a, rr, t.active_agents, d)),
       !.round_reports = Append(t.round_reports, LiveReport(a, rr, t.active_agents, d))]

(* the tables shown when the loop has ended *)
LiveResult(a, t) ==
    [kind |-> "live_bidding",
     df_live |-> BidsDf(a, t.bids_data),
     summary_data |-> SummaryDf(a, t.profits, t.cvar_risks, t.activity_counts)]

LiveRound ==
    /\ prog = "live" /\ pc = "loop" /\ r < args.n_rounds
    /\ \E d \in RoundDraws(args.n_agents) :
          SetTrackers(LiveRoundStep(Trackers, args, r, d))
    /\ r' = r + 1
    /\ UNCHANGED <<rng, prog, pc, args, alerts, result, session, params, page>>

LiveSummary ==
    /\ prog = "live" /\ pc = "loop" /\ r = args.n_rounds
    /\ pc' = "done"
    /\ result' = LiveResult(args, Trackers)
    /\ UNCHANGED <<rng, prog, args, r, active_agents, profits, cvar_risks, activity_counts,
                   bids_data, round_reports, lambda_trace, alerts, session, params, page>>

-----------------------------------------------------------------------------
(* run_simulation and the loop of live_bidding side by side on the same draws: the
   trackers of run_simulation in the variables, those of live_bidding in session *)

InitSide ==
    /\ prog = "side_by_side"
    /\ pc = "loop"
    /\ args \in ParamCfgs
    /\ r = 0
    /\ SetTrackersNow(FreshTrackers(args))
    /\ alerts = <<>>
    /\ result = NoResult
    /\ session = [kind |-> "live_bidding", trackers |-> FreshTrackers(args)]
    /\ params = NoParams
    /\ page = NoPage
    /\ rng = NoRng

SideRound ==
    /\ prog = "side_by_side" /\ pc = "loop" /\ r < args.n_rounds
    /\ \E d \in RoundDraws(args.n_agents) :
          /\ SetTrackers(AppRoundStep(Trackers, args, r, d))
          /\ session' = [session EXCEPT !.trackers = LiveRoundStep(@, args, r, d)]
    /\ r' = r + 1
    /\ UNCHANGED <<rng, prog, pc, args, alerts, result, params, page>>

SideReturn ==
    /\ prog = "side_by_side" /\ pc = "loop" /\ r = args.n_rounds
    /\ pc' = "done"
    /\ result' = [kind |-> "side_by_side",
                  app |-> SimResult(args, Trackers),
                  live |-> LiveResult(args, session.trackers)]
    /\ UNCHANGED <<rng, prog, args, r, active_agents, profits, cvar_risks, activity_counts,
                   bids_data, round_reports, lambda_trace, alerts, session, params, page>>

SpecSideBySide == InitSide /\ [][SideRound \/ SideReturn]_vars

-----------------------------------------------------------------------------
(* YC_app: the Live Treaty Bidding tab *)

Cycles == 10
NumBids == 3
HeadLimit == 30
SleepSeconds == 3

StatusColors == [Accepted |-> "#4CAF50", Pending |-> "#FFC107", Flagged |-> "#F44336"]

(* the values random.choice and np.random.uniform return for the rows of one call *)
FakeDraws ==
    { << [reinsurer |-> "SwissRe", quote |-> 800, status |-> "Pending"],
         [reinsurer |-> "MunichRe", quote |-> 1013, status |-> "Accepted"],
         [reinsurer |-> "SwissRe", quote |-> 1200, status |-> "Flagged"] >>,
      << [reinsurer |-> "Berkshire", quote |-> 957, status |-> "Accepted"],
         [reinsurer |-> "HannoverRe", quote |-> 957, status |-> "Accepted"],
         [reinsurer |-> "MunichRe", quote |-> 1104, status |-> "Pending"] >> }

(* generate_fake_bids(num) at the time now; a row keeps its index label *)
generate_fake_bids(num, now, dr) ==
    [j \in 1..num |->
        [index |-> j - 1, Time |-> now, Reinsurer |-> dr[j].reinsurer,
         Quote |-> dr[j].quote, Status |-> dr[j].status]]

(* the Status column after .apply of the lambda *)
Colorize(df) ==
    [j \in 1..Len(df) |->
        [df[j] EXCEPT !.Status = [color |-> StatusColors[@], text |-> @]]]

(* a variant that puts the new rows last *)
ConcatOlderFirst(new, old) == old \o new

(* pd.concat([new, old]) *)
Concat(new, old) == new \o old

(* df.head(n) *)
HeadOf(df, n) == SubSeq(df, 1, IF n < Len(df) THEN n ELSE Len(df))

InitYC ==
    /\ prog = "yc"
    /\ pc = "loop"
    /\ args = [n_agents |-> 0]
    /\ r = 0
    /\ active_agents = <<>>
    /\ profits = <<>>
    /\ cvar_risks = <<>>
    /\ activity_counts = <<>>
    /\ bids_data = <<>>
    /\ round_reports = <<>>
    /\ lambda_trace = <<>>
    /\ alerts = <<>>
    /\ result = NoResult
    /\ session = NoSession
    /\ params = NoParams
    /\ page = [kind |-> "yc", bids |-> <<>>, shown |-> <<>>, now |-> 0]
    /\ rng = NoRng

(* one pass of the body of for _ in range(10) *)
StreamCycle ==
    /\ prog = "yc" /\ pc = "loop" /\ r < Cycles
    /\ \E dr \in FakeDraws :
          LET new_bids == Colorize(generate_fake_bids(NumBids, page.now, dr))
              bids == HeadOf(Concat(new_bids, page.bids), HeadLimit)
          IN  page' = [page EXCEPT !.bids = bids, !.shown = bids,
                                   !.now = @ + SleepSeconds]
    /\ r' = r + 1
    /\ UNCHANGED <<rng, prog, pc, args, active_agents, profits, cvar_risks, activity_counts,
                   bids_data, round_reports, lambda_trace, alerts, result, session, params>>

(* range(10) is exhausted *)
StreamEnd ==
    /\ prog = "yc" /\ pc = "loop" /\ r = Cycles
    /\ pc' = "done"
    /\ UNCHANGED <<rng, prog, args, r, active_agents, profits, cvar_risks, activity_counts,
                   bids_data, round_reports, lambda_trace, alerts, result, session, params,
                   page>>

SpecYC == InitYC /\ [][StreamCycle \/ StreamEnd]_vars /\ WF_vars(StreamCycle \/ StreamEnd)

-----------------------------------------------------------------------------
(* Exact fractions <<numerator, denominator>> stand for the float quotients *)

RECURSIVE Gcd(_, _)
Gcd(x, y) == IF y = 0 THEN x ELSE Gcd(y, x % y)

Norm(q) ==
    IF q[2] = 0 THEN <<0, 0>>                       \* x / 0: nan or inf
    ELSE LET g == Gcd(Abs(q[1]), Abs(q[2]))
             sg == IF q[2] < 0 THEN -1 ELSE 1
         IN  <<sg * (q[1] \div g), sg * (q[2] \div g)>>
RatSub(p, q) == Norm(<<p[1] * q[2] - q[1] * p[2], p[2] * q[2]>>)
RatOne == <<1, 1>>

(* a variant that forgets np.sort *)
Unsorted(x) == x

Sorted(x) == SortSeq(x, LAMBDA u, v : u < v)                  \* np.sort
Arange(n) == [k \in 1 .. n |-> k]                             \* np.arange(1, n + 1)
Dot(x, y) == SumSeq([k \in 1 .. Len(x) |-> x[k] * y[k]])      \* np.sum(x * y)

(* gini = (2 * np.sum(np.arange(1, n+1) * sorted_p) / (n * np.sum(sorted_p))) - (n+1)/n *)
Gini(p) ==
    LET sorted_p == Sorted(p)
        n == Len(p)
    IN  RatSub(Norm(<<2 * Dot(Arange(n), sorted_p), n * SumSeq(sorted_p)>>),
               Norm(<<n + 1, n>>))

FairnessScore(p) == RatSub(RatOne, Gini(p))                   \* fairness_score = 1 - gini

-----------------------------------------------------------------------------
(* market_lens, after "Run Benchmarking Analysis" is pressed *)

ExtraRounds == 0      \* n_rounds of market_lens / governance_in_loop: the slider minimum + 0..ExtraRounds
MLMinRounds == 5      \* slider "Number of Rounds", 5, 50
BidChance == 200      \* np.random.rand() > 0.2, in thousandths

MLDraw ==
    { [coin |-> 200, u |-> 100, z |-> 0,  m |-> 10, risk |-> 0],
      [coin |-> 900, u |-> 150, z |-> 10, m |-> 15, risk |-> 10],
      [coin |-> 201, u |-> 50,  z |-> -5, m |-> 5,  risk |-> -10] }

MLCfgs ==
    [n_agents : {MinAgents}, n_rounds : MLMinRounds .. MLMinRounds + ExtraRounds,
     scenario : {"Normal"}, fairness_metric : {"Gini Coefficient", "Max-Min Ratio"},
     activity_weight : {50}, volatility : {15, 50}]

MLBids(dr) == dr.coin > BidChance
MLBid(a, dr) == dr.u * (1000 + dr.z * a.volatility)           \* in 1e-3 dollars
MLProfit(a, dr) == MLBid(a, dr) * dr.m                        \* in 1e-5 dollars
MLCvar(a, dr) == Abs(dr.risk * (100 + a.volatility) * 5)      \* in thousandths

MLFairness(a, p) ==
    IF a.fairness_metric = "Gini Coefficient" THEN FairnessScore(p)
    ELSE Norm(<<MinOf(p), MaxOf(p)>>)                         \* np.min(profits) / np.max(profits)

InitML ==
    /\ prog = "market_lens"
    /\ pc = "loop"
    /\ args \in MLCfgs
    /\ r = 0
    /\ active_agents = <<>>
    /\ profits = Zeros(args.n_agents)
    /\ cvar_risks = Zeros(args.n_agents)
    /\ activity_counts = Zeros(args.n_agents)
    /\ bids_data = <<>>
    /\ round_reports = <<>>
    /\ lambda_trace = <<>>
    /\ alerts = <<>>
    /\ result = NoResult
    /\ session = NoSession
    /\ params = NoParams
    /\ page = NoPage
    /\ rng = NoRng

(* the body of `for r in range(n_rounds)` with the draws d *)
MLStep(d) ==
    /\ profits' = [i \in Agents(args.n_agents) |->
          IF MLBids(d[i]) THEN profits[i] + MLProfit(args, d[i]) ELSE profits[i]]
    /\ cvar_risks' = [i \in Agents(args.n_agents) |->
          IF MLBids(d[i]) THEN cvar_risks[i] + MLCvar(args, d[i]) ELSE cvar_risks[i]]
    /\ activity_counts' = [i \in Agents(args.n_agents) |->
          IF MLBids(d[i]) THEN activity_counts[i] + 1 ELSE activity_counts[i]]
    /\ r' = r + 1
    /\ UNCHANGED <<prog, pc, args, active_agents, bids_data, round_reports, lambda_trace,
                   alerts, result, session, params, page>>

MLRound ==
    /\ prog = "market_lens" /\ pc = "loop" /\ r < args.n_rounds
    /\ \E d \in [Agents(args.n_agents) -> MLDraw] : MLStep(d)
    /\ UNCHANGED rng

(* cvar_risks /= n_rounds, the fairness score and the summary table *)
MLSummary ==
    /\ prog = "market_lens" /\ pc = "loop" /\ r = args.n_rounds
    /\ pc' = "done"
    /\ cvar_risks' = [i \in Agents(args.n_agents) |-> cvar_risks[i] \div args.n_rounds]
    /\ result' = [kind |-> "market_lens",
                  fairness_score |-> MLFairness(args, profits),
                  summary_df |-> SummaryDf(args, profits, cvar_risks', activity_counts)]
    /\ UNCHANGED <<rng, prog, args, r, active_agents, profits, activity_counts,
                   bids_data, round_reports, lambda_trace, alerts, session, params, page>>

-----------------------------------------------------------------------------
(* governance_in_loop, after "Run Oversight Simulation" is pressed *)

GovMinRounds == 5     \* slider "Number of Rounds", 5, 30

GovDraw == { [noise |-> -20, u |-> 80], [noise |-> 10, u |-> 120] }

GovCfgs ==
    { [n_agents |-> MinAgents, n_rounds |-> k, base_cvar_penalty |-> c[1],
       intervention_threshold |-> c[2], governance_sensitivity |-> c[3], random_seed |-> 42] :
         k \in GovMinRounds .. GovMinRounds + ExtraRounds,
         c \in { <<100, 130, 10>>, <<10, 100, 20>>, <<500, 500, 1>> } }

GovLambdas(a, rr, d) ==
    [i \in Agents(a.n_agents) |->
        Clip(10 * a.base_cvar_penalty + 30 * d[i].noise
               + Sin3(rr) * a.governance_sensitivity, ClipLow)]

(* np.maximum(0, 100 * uniform / (1 + lambdas)), in thousandths of a dollar *)
GovProfit(u, lam) == Max2(0, (u * 1000000) \div (1000 + lam))

(* any(l > threshold for l in row): lambda in thousandths, the threshold in hundredths *)
AnyAbove(row, threshold) == \E i \in DOMAIN row : row[i] > 10 * threshold

(* [i+1 for i, a in enumerate(alerts) if a] *)
RECURSIVE AlertRoundsFrom(_, _)
AlertRoundsFrom(flags, k) ==
    IF k > Len(flags) THEN <<>>
    ELSE (IF flags[k] THEN <<k>> ELSE <<>>) \o AlertRoundsFrom(flags, k + 1)
AlertRounds(flags) == AlertRoundsFrom(flags, 1)

(* st.error(...) if alert_rounds else st.success(...) *)
AlertBanner(alert_rounds) == IF alert_rounds # <<>> THEN "alerts" ELSE "no alerts"

InitGov ==
    /\ prog = "governance"
    /\ pc = "loop"
    /\ args \in GovCfgs
    /\ r = 0
    /\ active_agents = <<>>
    /\ profits = Zeros(args.n_agents)
    /\ cvar_risks = <<>>
    /\ activity_counts = <<>>
    /\ bids_data = <<>>
    /\ round_reports = <<>>
    /\ lambda_trace = <<>>
    /\ alerts = <<>>
    /\ result = NoResult
    /\ session = NoSession
    /\ params = NoParams
    /\ page = NoPage
    /\ rng = NoRng

(* the body of `for r in range(n_rounds)` with the draws d *)
GovStep(d) ==
    /\ LET lam == GovLambdas(args, r, d) IN
          /\ profits' = [i \in Agents(args.n_agents) |->
                            profits[i] + GovProfit(d[i].u, lam[i])]
          /\ lambda_trace' = Append(lambda_trace, lam)
          /\ alerts' = Append(alerts, AnyAbove(lam, args.intervention_threshold))
    /\ r' = r + 1
    /\ UNCHANGED <<prog, pc, args, active_agents, cvar_risks, activity_counts, bids_data,
                   round_reports, result, session, params, page>>

GovRound ==
    /\ prog = "governance" /\ pc = "loop" /\ r < args.n_rounds
    /\ \E d \in [Agents(args.n_agents) -> GovDraw] : GovStep(d)
    /\ UNCHANGED rng

GovSummary ==
    /\ prog = "governance" /\ pc = "loop" /\ r = args.n_rounds
    /\ pc' = "done"
    /\ result' = [kind |-> "governance",
                  lambda_df |-> DualVarDf(args, lambda_trace),
                  alert_rounds |-> AlertRounds(alerts),
                  banner |-> AlertBanner(AlertRounds(alerts)),
                  threshold_shown |-> args.intervention_threshold,
                  final_lambda |-> lambda_trace[Len(lambda_trace)],
                  profit |-> profits]
    /\ UNCHANGED <<rng, prog, args, r, active_agents, profits, cvar_risks, activity_counts,
                   bids_data, round_reports, lambda_trace, alerts, session, params, page>>

-----------------------------------------------------------------------------
(* The fairness score as a function of the profit vector: the three places that
   compute it, applied to profit vectors drawn from a bounded set *)

MaxProfit == 4        \* entries of the profit vectors range over 0..MaxProfit
MaxVecLen == 3        \* their lengths over MinAgents..MaxVecLen

ProfitVectors ==
    UNION { [1 .. n -> 0 .. MaxProfit] : n \in MinAgents .. MaxVecLen }

InitFairness ==
    /\ prog = "fairness"
    /\ pc = "input"
    /\ args = [n_agents |-> 0]
    /\ r = 0
    /\ active_agents = <<>>
    /\ profits \in ProfitVectors
    /\ cvar_risks = <<>>
    /\ activity_counts = <<>>
    /\ bids_data = <<>>
    /\ round_reports = <<>>
    /\ lambda_trace = <<>>
    /\ alerts = <<>>
    /\ result = NoResult
    /\ session = NoSession
    /\ params = NoParams
    /\ page = NoPage
    /\ rng = NoRng

(* app.main, Quick Snapshot *)
QuickSnapshotFairness ==
    /\ prog = "fairness" /\ pc = "input"
    /\ pc' = "done"
    /\ result' = [kind |-> "quick_snapshot", fairness_score |-> FairnessScore(profits)]
    /\ UNCHANGED <<rng, prog, args, r, active_agents, profits, cvar_risks, activity_counts,
                   bids_data, round_reports, lambda_trace, alerts, session, params, page>>

(* app.main, MarketLens section *)
MarketLensFairness ==
    /\ prog = "fairness" /\ pc = "input"
    /\ pc' = "done"
    /\ result' = [kind |-> "marketlens_section", fairness_score |-> FairnessScore(profits)]
    /\ UNCHANGED <<rng, prog, args, r, active_agents, profits, cvar_risks, activity_counts,
                   bids_data, round_reports, lambda_trace, alerts, session, params, page>>

(* market_lens with fairness_metric = "Gini Coefficient" *)
MLGiniFairness ==
    /\ prog = "fairness" /\ pc = "input"
    /\ pc' = "done"
    /\ result' = [kind |-> "market_lens",
                  fairness_score |-> MLFairness([fairness_metric |-> "Gini Coefficient"],
                                                profits)]
    /\ UNCHANGED <<rng, prog, args, r, active_agents, profits, cvar_risks, activity_counts,
                   bids_data, round_reports, lambda_trace, alerts, session, params, page>>

NextFairness == QuickSnapshotFairness \/ MarketLensFairness \/ MLGiniFairness

SpecFairness == InitFairness /\ [][NextFairness]_vars

-----------------------------------------------------------------------------
(* app.main: one script run per rerun, st.session_state kept between them *)

MainCfgs == {DefaultParams, StressParams, CalmParams}     \* the sliders, Rounds at its minimum

(* if "params" not in st.session_state: st.session_state["params"] = {...} *)
WithDefaults(ss) ==
    IF ss.kind = "fresh"
    THEN [kind |-> "state", params |-> DefaultParams, results |-> None]
    ELSE ss

(* [i+1 for i, row in enumerate(dual_var_df.values) if any(v > params["alert_threshold"] ...)] *)
AppAlertRounds(dual_var_df, p) ==
    AlertRounds([k \in 1 .. Len(dual_var_df) |->
                    AnyAbove(dual_var_df[k].row, p.alert_threshold)])

ProfitColumn(summary_df) == [i \in 1 .. Len(summary_df) |-> summary_df[i].Profit]

(* what the sections below the controls show *)
MainPage(ss, p) ==
    IF ss.results = None
    THEN [kind |-> "main", populated |-> FALSE]
    ELSE LET res == ss.results[1] IN
         [kind |-> "main", populated |-> TRUE,
          quick_fairness |-> FairnessScore(ProfitColumn(res.summary_df)),
          round_summaries |-> res.round_reports,
          marketlens_fairness |-> FairnessScore(ProfitColumn(res.summary_df)),
          rounds_shown |-> p.n_rounds,
          threshold_shown |-> p.alert_threshold,
          alert_rounds |-> AppAlertRounds(res.dual_var_df, p),
          banner |-> AlertBanner(AppAlertRounds(res.dual_var_df, p))]

InitMain ==
    /\ prog = "main"
    /\ pc = "idle"
    /\ args = [n_agents |-> 0]
    /\ r = 0
    /\ active_agents = <<>>
    /\ profits = <<>>
    /\ cvar_risks = <<>>
    /\ activity_counts = <<>>
    /\ bids_data = <<>>
    /\ round_reports = <<>>
    /\ lambda_trace = <<>>
    /\ alerts = <<>>
    /\ result = NoResult
    /\ session = [kind |-> "fresh"]
    /\ params = NoParams
    /\ page = NoPage
    /\ rng = NoRng

(* a rerun without the button: the script runs from the top to the sections *)
MainRerun ==
    /\ prog = "main" /\ pc = "idle"
    /\ \E sliders \in MainCfgs : args' = sliders
    /\ session' = WithDefaults(session)
    /\ params' = session'.params
    /\ pc' = "render"
    /\ result' = NoResult
    /\ UNCHANGED <<rng, prog, r, active_agents, profits, cvar_risks, activity_counts,
                   bids_data, round_reports, lambda_trace, alerts, page>>

(* a rerun by "Run / Re-run Simulation": the script reaches the call of run_simulation *)
MainRunClicked ==
    /\ prog = "main" /\ pc = "idle"
    /\ \E sliders \in MainCfgs :
          /\ args' = sliders
          /\ SetTrackers(FreshTrackers(sliders))
    /\ session' = WithDefaults(session)
    /\ params' = session'.params
    /\ r' = 0
    /\ pc' = "loop"
    /\ result' = NoResult
    /\ UNCHANGED <<rng, prog, alerts, page>>

(* run_simulation returns and st.session_state.update({...}) stores results and params *)
MainStore ==
    /\ prog = "main" /\ pc = "loop" /\ r = args.n_rounds
    /\ session' = [kind |-> "state", params |-> args,
                   results |-> Some(SimResult(args, Trackers))]
    /\ pc' = "render"
    /\ UNCHANGED <<rng, prog, args, r, active_agents, profits, cvar_risks, activity_counts,
                   bids_data, round_reports, lambda_trace, alerts, result, params, page>>

(* Quick Snapshot, Live Bidding, MarketLens and Governance sections *)
MainRender ==
    /\ prog = "main" /\ pc = "render"
    /\ result' = MainPage(session, params)
    /\ pc' = "idle"
    /\ UNCHANGED <<rng, prog, args, r, active_agents, profits, cvar_risks, activity_counts,
                   bids_data, round_reports, lambda_trace, alerts, session, params, page>>

(* live_bidding run again: "Run Simulation" pressed on a page that shows a run *)
LiveRerun ==
    /\ prog = "live" /\ pc = "done"
    /\ \E sliders \in ParamCfgs :
          /\ args' = sliders
          /\ SetTrackers(FreshTrackers(sliders))
    /\ r' = 0
    /\ pc' = "loop"
    /\ result' = NoResult
    /\ UNCHANGED <<rng, prog, alerts, session, params, page>>

InitReruns == InitMain \/ InitLive \/ InitGov

NextReruns ==
    \/ MainRerun \/ MainRunClicked \/ SimRound \/ MainStore \/ MainRender
    \/ LiveRound \/ LiveSummary \/ LiveRerun
    \/ GovRound \/ GovSummary

SpecReruns == InitReruns /\ [][NextReruns]_vars

-----------------------------------------------------------------------------
(* Two calls of run_simulation that differ in one control and draw the same numbers *)

(* the nine arguments of run_simulation, set by the controls of app.py *)
Controls ==
    {"n_agents", "n_rounds", "scenario", "bid_volatility", "market_intensity",
     "cvar_target", "base_lambda", "alert_threshold", "governance_sensitivity"}

ControlValues(c) ==
    IF c = "n_agents" THEN {MinAgents, MinAgents + 1}
    ELSE {p[c] : p \in ParamCfgs}

SetControl(a, c, v) == [a EXCEPT ![c] = v]

(* draws of an agent that stays in the market unless the controls make it withdraw *)
SharedDraws == {d \in AgentDraw : d.coin >= 100 /\ d.risk > 0}

(* the same draws in every round, for as many agents as a call may have *)
SharedTapes ==
    { [k \in 1 .. MaxRounds |-> row] : row \in [Agents(MinAgents + 1) -> SharedDraws] }

InitControls ==
    /\ prog = "controls"
    /\ pc = "pair"
    /\ args \in ParamCfgs
    /\ \E c \in Controls :
          /\ \E v \in ControlValues(c) : params = SetControl(args, c, v)
          /\ \E tape \in SharedTapes :
                session = [kind |-> "controls", control |-> c, tape |-> tape]
    /\ r = 0
    /\ active_agents = <<>>
    /\ profits = <<>>
    /\ cvar_risks = <<>>
    /\ activity_counts = <<>>
    /\ bids_data = <<>>
    /\ round_reports = <<>>
    /\ lambda_trace = <<>>
    /\ alerts = <<>>
    /\ result = NoResult
    /\ page = NoPage
    /\ rng = NoRng

ComparePair ==
    /\ prog = "controls" /\ pc = "pair"
    /\ result' = [kind |-> "pair", control |-> session.control,
                  base |-> RunSimulation(args, session.tape),
                  varied |-> RunSimulation(params, session.tape)]
    /\ pc' = "done"
    /\ UNCHANGED <<rng, prog, args, r, active_agents, profits, cvar_risks, activity_counts,
                   bids_data, round_reports, lambda_trace, alerts, session, params, page>>

SpecControls == InitControls /\ [][ComparePair]_vars

-----------------------------------------------------------------------------
(* pages/1_Live_Bidding.py: one script run per refresh, bids kept in st.session_state *)

NumReinsurers == 2                               \* reinsurers of the page that are followed
MaxRefresh == 2                                  \* script runs that are followed

UpdateChance == 600                              \* np.random.rand() < 0.6
WithdrawChance == 50                             \* np.random.rand() < 0.05
BidFloor == 600                                  \* max(6.0, ...)
RefreshSeconds == 10                             \* st_autorefresh(interval=10_000)

Reinsurers ==
    SubSeq(<<"Swiss Re", "Munich Re", "Hannover Re", "SCOR", "Partner Re">>,
           1, NumReinsurers)

InitialBids == {670, 730}                        \* np.round(np.random.uniform(6.7, 7.3), 2)

(* the draws one reinsurer may take in a run: first and second rand() in thousandths,
   the rounded uniform(0.01, 0.05) in hundredths *)
PageDraw ==
    { [first |-> 300, second |-> 500, step |-> 3],
      [first |-> 800, second |-> 10,  step |-> 3],
      [first |-> 800, second |-> 500, step |-> 3] }

(* the body of the loop for one company; None - float raises TypeError *)
StepCompany(bid, d) ==
    IF d.first < UpdateChance
    THEN IF bid = None
         THEN [raised |-> TRUE, bid |-> bid, action |-> "Update"]
         ELSE [raised |-> FALSE, bid |-> Some(Max2(BidFloor, bid[1] - d.step)),
               action |-> "Update"]
    ELSE IF d.second < WithdrawChance
         THEN [raised |-> FALSE, bid |-> None, action |-> "Withdraw"]
         ELSE [raised |-> FALSE, bid |-> bid, action |-> "Hold"]

(* for company, bid in st.session_state.bids.items(): ... *)
RECURSIVE BidLoop(_, _, _, _, _, _)
BidLoop(bids, d, k, new_bids, actions, now) ==
    IF k > Len(bids)
    THEN [raised |-> FALSE, new_bids |-> new_bids, actions |-> actions]
    ELSE LET s == StepCompany(bids[k], d[k]) IN
         IF s.raised
         THEN [raised |-> TRUE, new_bids |-> new_bids, actions |-> actions]
         ELSE BidLoop(bids, d, k + 1, Append(new_bids, s.bid),
                      IF s.action # "Hold"
                      THEN Append(actions, [time |-> now, company |-> Reinsurers[k],
                                            action |-> s.action, bid |-> s.bid])
                      ELSE actions,
                      now)

ActiveCompanies(bids) == {k \in DOMAIN bids : bids[k] # None}

(* min(active_bids.values()) *)
LowestActive(bids) ==
    CHOOSE x \in {bids[k][1] : k \in ActiveCompanies(bids)} :
        \A k \in ActiveCompanies(bids) : x <= bids[k][1]

(* min(active_bids, key=active_bids.get): the first company with the lowest bid *)
Winner(bids) ==
    Reinsurers[CHOOSE k \in ActiveCompanies(bids) :
                  /\ bids[k][1] = LowestActive(bids)
                  /\ \A j \in ActiveCompanies(bids) :
                        bids[j][1] = LowestActive(bids) => k <= j]

(* the session as lines 67-74 create it in the first run *)
InitPage ==
    /\ prog = "page"
    /\ pc = "idle"
    /\ args = [n_agents |-> 0]
    /\ r = 0
    /\ active_agents = <<>>
    /\ profits = <<>>
    /\ cvar_risks = <<>>
    /\ activity_counts = <<>>
    /\ bids_data = <<>>
    /\ round_reports = <<>>
    /\ lambda_trace = <<>>
    /\ alerts = <<>>
    /\ result = NoResult
    /\ session = NoSession
    /\ params = NoParams
    /\ \E b \in [1 .. NumReinsurers -> InitialBids] :
          page = [kind |-> "page", bids |-> [k \in 1 .. NumReinsurers |-> Some(b[k])],
                  history |-> <<>>, trend |-> <<>>, start_time |-> 0, now |-> 0,
                  runs |-> 0, error |-> FALSE, performed |-> <<>>, winner |-> None,
                  elapsed |-> 0]
    /\ rng = NoRng

(* the value of action the loop leaves for each company *)
Performed(bids, d) == [k \in DOMAIN bids |-> StepCompany(bids[k], d[k]).action]

(* a variant that puts the new entries in front *)
ExtendFront(list, items) == items \o list

Extend(list, items) == list \o items             \* list.extend(items)

(* one run of the script from the update loop to the elapsed time; a run that raises
   stops there and leaves st.session_state as it was; the next run comes gap seconds
   later *)
PageRun(gap) ==
    /\ prog = "page" /\ page.runs < MaxRefresh
    /\ \E d \in [1 .. NumReinsurers -> PageDraw] :
          LET out == BidLoop(page.bids, d, 1, <<>>, <<>>, page.now) IN
          page' = IF out.raised
                  THEN [page EXCEPT !.error = TRUE, !.runs = @ + 1, !.winner = None,
                                    !.performed = <<>>, !.now = @ + gap]
                  ELSE [kind |-> "page",
                        bids |-> out.new_bids,
                        history |-> Extend(page.history, out.actions),
                        trend |-> IF ActiveCompanies(out.new_bids) # {}
                                  THEN Append(page.trend, LowestActive(out.new_bids))
                                  ELSE page.trend,
                        start_time |-> page.start_time,
                        now |-> page.now + gap,
                        runs |-> page.runs + 1,
                        error |-> FALSE,
                        performed |-> Performed(page.bids, d),
                        winner |-> IF ActiveCompanies(out.new_bids) # {}
                                   THEN Some(Winner(out.new_bids)) ELSE None,
                        elapsed |-> page.now - page.start_time]
    /\ UNCHANGED <<rng, prog, pc, args, r, active_agents, profits, cvar_risks, activity_counts,
                   bids_data, round_reports, lambda_trace, alerts, result, session, params>>

(* the run that st_autorefresh triggers *)
PageRefresh == PageRun(RefreshSeconds)

SpecPage == InitPage /\ [][PageRefresh]_vars

WindowSeconds == 180                             \* "Simulated bidding window: 3 minutes"

(* a run that comes when the bidding window has gone by: the page is rerun by the
   browser or by the user as long as the session lives *)
PageLateRefresh == PageRun(WindowSeconds)

SpecWindow == InitPage /\ [][PageRefresh \/ PageLateRefresh]_vars

-----------------------------------------------------------------------------
(* demo_app.py: the upload block of the first tab and the Portfolio Metrics tab, one
   script run per action; a data frame is its set of columns and its rows *)

RowLimit == 50000                                \* if len(df) > 50000: df = df.head(50000)
HeadRows == 20                                   \* df.head(20)
RedDays == 30                                    \* row['DaysToExpiry'] <= 30
OrangeDays == 60                                 \* row['DaysToExpiry'] <= 60
YellowDays == 90                                 \* row['DaysToExpiry'] <= 90
HighLoss == 80                                   \* df["LossRatio"] > 0.8, in hundredths

(* the columns the upload instructions list as required *)
ListedColumns ==
    {"InsuredName", "State", "TypeOfCoverage", "EffectiveDate", "ExpirationDate",
     "InsurancePremium", "ReinsurancePremium", "PolicyLimit", "Deductible", "LossRatio"}

(* required_cols of the Portfolio Metrics tab *)
RequiredCols == <<"InsurancePremium", "ReinsurancePremium", "LossRatio", "DaysToExpiry">>

(* the columns of the two tables below the metrics *)
TableCols ==
    {"ContractID", "InsuredName", "Broker", "TypeOfCoverage", "LossRatio",
     "InsurancePremium", "DaysToExpiry", "ReinsurancePremium"}

(* rows of a file: the cells of the columns the page reads, where the file has them *)
FileRows ==
    { <<>>,
      << [DaysToExpiry |-> 20, LossRatio |-> 90, InsurancePremium |-> 500,
          ReinsurancePremium |-> 200],
         [DaysToExpiry |-> 75, LossRatio |-> 40, InsurancePremium |-> 300,
          ReinsurancePremium |-> 100] >>,
      << [DaysToExpiry |-> 45, LossRatio |-> 120, InsurancePremium |-> 800,
          ReinsurancePremium |-> 300] >>,
      << [DaysToExpiry |-> 200, LossRatio |-> 80, InsurancePremium |-> 100,
          ReinsurancePremium |-> 60] >>,
      << [DaysToExpiry |-> 30, LossRatio |-> 81, InsurancePremium |-> 250,
          ReinsurancePremium |-> 50],
         [DaysToExpiry |-> 90, LossRatio |-> 20, InsurancePremium |-> 250,
          ReinsurancePremium |-> 150] >> }

FileColumns ==
    { ListedColumns,
      ListedColumns \cup {"DaysToExpiry"},
      ListedColumns \cup {"DaysToExpiry", "ContractID", "Broker"},
      {"InsurancePremium", "ReinsurancePremium", "DaysToExpiry"},
      {"InsuredName", "State"} }

FileNames == {"portfolio.csv", "portfolio.xlsx"}     \* type=["csv", "xlsx"]

(* the files a user may put into the uploader; one that cannot be parsed has no frame *)
UploadedFiles ==
    [name : FileNames, readable : {TRUE}, columns : FileColumns, rows : FileRows]
        \cup [name : FileNames, readable : {FALSE}, columns : {{}}, rows : {<<>>}]

TakeHead(rows, n) == SubSeq(rows, 1, IF Len(rows) < n THEN Len(rows) ELSE n)   \* df.head(n)

(* highlight_expiring(row) *)
HighlightExpiring(row) ==
    IF row.DaysToExpiry <= RedDays THEN "#ffcccc"
    ELSE IF row.DaysToExpiry <= OrangeDays THEN "#fff2cc"
    ELSE IF row.DaysToExpiry <= YellowDays THEN "#ffffcc"
    ELSE ""

(* st.dataframe(df.head(20).style.apply(highlight_expiring, axis=1)): the function runs
   on every row shown, and row['DaysToExpiry'] raises KeyError without that column *)
StyledHead(df) ==
    LET head == TakeHead(df.rows, HeadRows) IN
    IF head # <<>> /\ "DaysToExpiry" \notin df.columns
    THEN [raised |-> TRUE, styles |-> <<>>]
    ELSE [raised |-> FALSE, styles |-> [k \in DOMAIN head |-> HighlightExpiring(head[k])]]

(* if uploaded_file: try: ... except Exception as e: st.error("Failed to load file") *)
UploadBlock(ss, file) ==
    IF file = None
    THEN [session |-> ss, messages |-> <<>>, styles |-> <<>>]
    ELSE IF ~file[1].readable
    THEN [session |-> ss, messages |-> <<"Failed to load file">>, styles |-> <<>>]
    ELSE LET df == [columns |-> file[1].columns, rows |-> TakeHead(file[1].rows, RowLimit)]
             stored == [ss EXCEPT !.portfolio_df = Some(df)]
             shown == StyledHead(df)
         IN  IF shown.raised
             THEN [session |-> stored, messages |-> <<"Uploaded", "Failed to load file">>,
                   styles |-> <<>>]
             ELSE [session |-> stored, messages |-> <<"Uploaded">>, styles |-> shown.styles]

(* with tabs[1]: the warning, the check of required_cols with st.stop(), the metrics,
   and the two tables, which raise KeyError for a column the frame lacks *)
MetricsTab(ss) ==
    IF ss.portfolio_df = None
    THEN [kind |-> "warning"]
    ELSE LET df == ss.portfolio_df[1]
             columns == df.columns \cup {"Region", "Broker", "TypeOfCoverage"}
             missing_cols == SelectSeq(RequiredCols, LAMBDA c : c \notin columns)
         IN  IF missing_cols # <<>>
             THEN [kind |-> "Missing required columns", missing_cols |-> missing_cols]
             ELSE [kind |-> "metrics",
                   n_contracts |-> Len(df.rows),
                   total_ins |-> SumSeq([k \in DOMAIN df.rows |-> df.rows[k].InsurancePremium]),
                   total_re |-> SumSeq([k \in DOMAIN df.rows |-> df.rows[k].ReinsurancePremium]),
                   avg_loss |-> Norm(<<SumSeq([k \in DOMAIN df.rows |-> df.rows[k].LossRatio]),
                                       Len(df.rows)>>),
                   exp_30d |-> Cardinality({k \in DOMAIN df.rows : df.rows[k].DaysToExpiry <= RedDays}),
                   high_loss_ratio |-> Cardinality({k \in DOMAIN df.rows : df.rows[k].LossRatio > HighLoss}),
                   tables |-> IF TableCols \subseteq columns THEN "shown" ELSE "KeyError"]

InitDemo ==
    /\ prog = "demo_app"
    /\ pc = "idle"
    /\ args = [n_agents |-> 0, uploaded_file |-> None]
    /\ r = 0
    /\ active_agents = <<>>
    /\ profits = <<>>
    /\ cvar_risks = <<>>
    /\ activity_counts = <<>>
    /\ bids_data = <<>>
    /\ round_reports = <<>>
    /\ lambda_trace = <<>>
    /\ alerts = <<>>
    /\ result = NoResult
    /\ session = [kind |-> "demo_app", portfolio_df |-> None]
    /\ params = NoParams
    /\ page = NoPage
    /\ rng = NoRng

(* one script run with the uploader as the user left it *)
DemoRun(file) ==
    /\ prog = "demo_app"
    /\ args' = [n_agents |-> 0, uploaded_file |-> file]
    /\ LET up == UploadBlock(session, file) IN
          /\ session' = up.session
          /\ result' = [kind |-> "demo_app", messages |-> up.messages, styles |-> up.styles,
                        metrics |-> MetricsTab(up.session)]
    /\ UNCHANGED <<rng, prog, pc, r, active_agents, profits, cvar_risks, activity_counts,
                   bids_data, round_reports, lambda_trace, alerts, params, page>>

(* a run after a file was put into the uploader *)
UploadRun == \E f \in UploadedFiles : DemoRun(Some(f))

(* a run with an empty uploader *)
PlainRun == DemoRun(None)

SpecUpload == InitDemo /\ [][UploadRun \/ PlainRun]_vars

-----------------------------------------------------------------------------
(* The colours of the bidding tables: app.highlight_table and live_bidding's
   highlight_bids, applied to every row of a bids table (axis=1) *)

AppPalette == [red |-> "background-color: #f8d7da", green |-> "background-color: #d4edda",
               yellow |-> "background-color: #fff3cd", none |-> ""]

LivePalette == [red |-> "background-color: red", green |-> "background-color: lightgreen",
                yellow |-> "background-color: khaki", none |-> ""]

(* a variant that tests the lowest bid first *)
CellStyleLowestFirst(v, highest, lowest, palette) ==
    IF v.nan THEN palette.red
    ELSE IF v.val = lowest THEN palette.yellow
    ELSE IF v.val = highest THEN palette.green
    ELSE palette.none

(* if isna(v): red  elif v == highest: green  elif v == lowest: yellow  else: "" *)
CellStyle(v, highest, lowest, palette) ==
    IF v.nan THEN palette.red
    ELSE IF v.val = highest THEN palette.green
    ELSE IF v.val = lowest THEN palette.yellow
    ELSE palette.none

(* style_row(row) / highlight_bids(row) *)
StyleRow(row, palette) ==
    LET bids == SelectSeq(row, NotNa)
        values == [k \in DOMAIN bids |-> bids[k].val]
    IN  IF bids = <<>>
        THEN [i \in DOMAIN row |-> palette.red]
        ELSE [i \in DOMAIN row |-> CellStyle(row[i], MaxOf(values), MinOf(values), palette)]

(* df.style.apply(style_row, axis=1) *)
StyleTable(table, palette) == [k \in DOMAIN table |-> StyleRow(table[k], palette)]

(* cells of a bids table: withdrawn, or a bid in cents *)
TableCells == {NaN, Num(9500), Num(10000), Num(10400)}

(* bids tables: a row per round, a column per agent *)
BidTables ==
    UNION { [1 .. n_rounds -> [1 .. n_agents -> TableCells]] :
              n_rounds \in MinRounds .. MaxRounds,
              n_agents \in MinAgents .. MinAgents + 1 }

InitHighlight ==
    /\ prog = "highlight"
    /\ pc = "table"
    /\ args = [n_agents |-> 0]
    /\ r = 0
    /\ active_agents = <<>>
    /\ profits = <<>>
    /\ cvar_risks = <<>>
    /\ activity_counts = <<>>
    /\ bids_data \in BidTables
    /\ round_reports = <<>>
    /\ lambda_trace = <<>>
    /\ alerts = <<>>
    /\ result = NoResult
    /\ session = NoSession
    /\ params = NoParams
    /\ page = NoPage
    /\ rng = NoRng

(* st.dataframe(highlight_table(st.session_state["bids_df"])) *)
HighlightTable ==
    /\ prog = "highlight" /\ pc = "table"
    /\ pc' = "styled"
    /\ result' = [kind |-> "highlight_table", styles |-> StyleTable(bids_data, AppPalette)]
    /\ UNCHANGED <<rng, prog, args, r, active_agents, profits, cvar_risks, activity_counts,
                   bids_data, round_reports, lambda_trace, alerts, session, params, page>>

(* table_placeholder.dataframe(df_live.style.apply(highlight_bids, axis=1)) *)
HighlightBids ==
    /\ prog = "highlight" /\ pc = "table"
    /\ pc' = "styled"
    /\ result' = [kind |-> "highlight_bids", styles |-> StyleTable(bids_data, LivePalette)]
    /\ UNCHANGED <<rng, prog, args, r, active_agents, profits, cvar_risks, activity_counts,
                   bids_data, round_reports, lambda_trace, alerts, session, params, page>>

SpecHighlight == InitHighlight /\ [][HighlightTable \/ HighlightBids]_vars

-----------------------------------------------------------------------------
(* governance_in_loop and market_lens with numpy's generator followed: the button
   handler seeds it, every draw depends on its state and moves it on *)

GovSeeds == {0, 42, 7}                           \* st.number_input("Random Seed", 0, 9999, 42)
MLSeed == 42                                     \* np.random.seed(42)

(* np.random.seed(s): the state depends on the seed alone *)
Seeded(s) == [kind |-> "seeded", state |-> s % 16]

(* a variant of seeding that leaves the generator as it is *)
NotSeeded(g, s) == g

SeedWith(g, s) == Seeded(s)

(* the generator after k draws *)
RECURSIVE Advance(_, _)
Advance(g, k) ==
    IF k = 0 THEN g ELSE Advance([g EXCEPT !.state = (5 * @ + 3) % 16], k - 1)

(* the values of the next draws, a function of the generator alone *)
RECURSIVE Nth(_, _)
Nth(S, k) ==
    LET e == CHOOSE x \in S : TRUE IN
    IF k = 0 THEN e ELSE Nth(S \ {e}, k - 1)

DrawFrom(g, S) == Nth(S, (g.state \div 2) % Cardinality(S))

(* randn(n_agents) and uniform(size=n_agents) of one round *)
GovDrawRow(g, n) == [i \in Agents(n) |-> DrawFrom(Advance(g, i - 1), GovDraw)]

(* the draws of one round of market_lens, agent by agent: rand(), and for an agent
   that bids two uniform() and two randn() more *)
RECURSIVE MLDrawRow(_, _, _, _)
MLDrawRow(g, n, i, d) ==
    IF i > n THEN [d |-> d, rng |-> g]
    ELSE LET dr == DrawFrom(g, MLDraw) IN
         MLDrawRow(Advance(g, IF MLBids(dr) THEN 5 ELSE 1), n, i + 1, Append(d, dr))

SeededGovCfgs == {[c EXCEPT !.random_seed = s] : c \in GovCfgs, s \in GovSeeds}

(* the run shown before the button is pressed again *)
Earlier == IF pc = "done" THEN [kind |-> "earlier", args |-> args, result |-> result]
           ELSE session

InitSeeded ==
    /\ prog \in {"governance", "market_lens"}
    /\ pc = "idle"
    /\ args = [n_agents |-> 0]
    /\ r = 0
    /\ active_agents = <<>>
    /\ profits = <<>>
    /\ cvar_risks = <<>>
    /\ activity_counts = <<>>
    /\ bids_data = <<>>
    /\ round_reports = <<>>
    /\ lambda_trace = <<>>
    /\ alerts = <<>>
    /\ result = NoResult
    /\ session = NoSession
    /\ params = NoParams
    /\ page = NoPage
    /\ rng \in {Seeded(s) : s \in 0 .. 15}

(* if run_governance: np.random.seed(random_seed) ... profits = np.zeros(n_agents) *)
GovPressed ==
    /\ prog = "governance" /\ pc \in {"idle", "done"}
    /\ \E sliders \in SeededGovCfgs :
          /\ args' = sliders
          /\ rng' = SeedWith(rng, sliders.random_seed)
          /\ profits' = Zeros(sliders.n_agents)
    /\ lambda_trace' = <<>>
    /\ alerts' = <<>>
    /\ r' = 0
    /\ pc' = "loop"
    /\ result' = NoResult
    /\ session' = Earlier
    /\ UNCHANGED <<prog, active_agents, cvar_risks, activity_counts, bids_data,
                   round_reports, params, page>>

GovSeededRound ==
    /\ prog = "governance" /\ pc = "loop" /\ r < args.n_rounds
    /\ GovStep(GovDrawRow(rng, args.n_agents))
    /\ rng' = Advance(rng, 2 * args.n_agents)

(* if run_analysis: np.random.seed(42) and the three np.zeros(n_agents) *)
MLPressed ==
    /\ prog = "market_lens" /\ pc \in {"idle", "done"}
    /\ \E sliders \in MLCfgs :
          /\ args' = sliders
          /\ profits' = Zeros(sliders.n_agents)
          /\ cvar_risks' = Zeros(sliders.n_agents)
          /\ activity_counts' = Zeros(sliders.n_agents)
    /\ rng' = SeedWith(rng, MLSeed)
    /\ r' = 0
    /\ pc' = "loop"
    /\ result' = NoResult
    /\ session' = Earlier
    /\ UNCHANGED <<prog, active_agents, bids_data, round_reports, lambda_trace, alerts,
                   params, page>>

MLSeededRound ==
    /\ prog = "market_lens" /\ pc = "loop" /\ r < args.n_rounds
    /\ LET row == MLDrawRow(rng, args.n_agents, 1, <<>>) IN
          /\ MLStep(row.d)
          /\ rng' = row.rng

SpecSeeded ==
    InitSeeded /\ [][GovPressed \/ GovSeededRound \/ GovSummary
                      \/ MLPressed \/ MLSeededRound \/ MLSummary]_vars

-----------------------------------------------------------------------------
Init == InitApp \/ InitLive \/ InitML \/ InitGov

Next ==
    \/ SimRound \/ SimReturn
    \/ LiveRound \/ LiveSummary
    \/ MLRound \/ MLSummary
    \/ GovRound \/ GovSummary

Spec == Init /\ [][Next]_vars

-----------------------------------------------------------------------------
(* Properties of the round loops *)

SimProg == prog \in {"app", "live"}

(* The agents that placed a bid in round k, and their bids *)
Bidders(k) == {i \in Agents(args.n_agents) : ~bids_data[k][i].val.nan}
PlacedBids(k) == {bids_data[k][i].val.val : i \in Bidders(k)}
SetMax(S) == CHOOSE x \in S : \A y \in S : y <= x
SetMin(S) == CHOOSE x \in S : \A y \in S : x <= y

(* C1: in every round report of run_simulation and of live_bidding, highest_bid is
   the maximum and lowest_bid the minimum of the bids the agents placed in that
   round, and both are None (N/A) exactly when no agent placed a bid. *)
C1_HighLowAreBidExtremes ==
    SimProg =>
        \A k \in 1 .. Len(round_reports) :
            IF PlacedBids(k) = {}
            THEN /\ round_reports[k].highest_bid = None
                 /\ round_reports[k].lowest_bid = None
            ELSE /\ round_reports[k].highest_bid = Some(SetMax(PlacedBids(k)))
                 /\ round_reports[k].lowest_bid = Some(SetMin(PlacedBids(k)))

(* C2: whenever at least one agent placed a bid in a round, top_agent names an agent
   whose bid in that round equals the highest bid placed; never a withdrawn agent,
   never the key "Round". *)
C2_TopAgentHoldsHighestBid ==
    SimProg =>
        \A k \in 1 .. Len(round_reports) :
            PlacedBids(k) # {} =>
                \E i \in Bidders(k) :
                    /\ round_reports[k].top_agent = AgentName[i]
                    /\ bids_data[k][i].val.val = SetMax(PlacedBids(k))

InList(x, list) == \E j \in DOMAIN list : list[j] = x

(* C3: withdrawal is permanent: an agent in the withdrawn list of round k has a NaN
   cell in round k and in every later round, and is in the withdrawn list of no
   other round. *)
C3_WithdrawalPermanent ==
    SimProg =>
        \A i \in Agents(args.n_agents) :
            \A k \in 1 .. Len(round_reports) :
                InList(AgentName[i], round_reports[k].withdrawn) =>
                    /\ \A m \in k .. Len(bids_data) : bids_data[m][i].val.nan
                    /\ \A m \in 1 .. Len(round_reports) :
                          InList(AgentName[i], round_reports[m].withdrawn) => m = k
                    /\ ~active_agents[i]

C3_Witness ==
    /\ prog = "app"
    /\ Len(round_reports) >= 2
    /\ InList(AgentName[1], round_reports[1].withdrawn)
    /\ bids_data[2][1].val.nan
    /\ ~bids_data[2][2].val.nan

(* C4: the CVaR accumulator of every agent is non-negative after every round and
   never decreases from one round to the next, in run_simulation, live_bidding and
   the market_lens loop. *)
C4_CvarNonNegativeMonotone ==
    [][(prog \in {"app", "live", "market_lens"} /\ r' = r + 1) =>
          \A i \in Agents(args.n_agents) :
              /\ cvar_risks[i] >= 0
              /\ cvar_risks'[i] >= cvar_risks[i]]_vars

C4_Witness ==
    /\ prog = "app"
    /\ \E i, j \in Agents(args.n_agents) :
          /\ activity_counts[i] >= 2 /\ cvar_risks[i] = 0
          /\ activity_counts[j] >= 2 /\ cvar_risks[j] > 0

(* C5: every dual variable recorded for every agent in every round is at least 0.01,
   in run_simulation and in governance_in_loop. *)
C5_LambdaAtLeastClip ==
    prog \in {"app", "governance"} =>
        \A k \in 1 .. Len(lambda_trace) :
            \A i \in Agents(args.n_agents) : lambda_trace[k][i] >= ClipLow

C5_Witness ==
    /\ prog = "governance"
    /\ Len(lambda_trace) >= 2
    /\ \E i \in Agents(args.n_agents) :
          lambda_trace[1][i] = ClipLow /\ lambda_trace[2][i] > ClipLow

(* The Gini coefficient by its reference definition,
   sum_i sum_j |x_i - x_j| / (2 * n * sum_i x_i), as an exact fraction *)
RefGini(x) ==
    LET n == Len(x)
        diffs == [k \in 1 .. n * n |->
                     Abs(x[((k - 1) \div n) + 1] - x[((k - 1) % n) + 1])]
    IN  Norm(<<SumSeq(diffs), 2 * n * SumSeq(x)>>)

(* C6: the fairness score computed in app.py (Quick Snapshot, MarketLens) and in
   market_lens with the Gini metric equals 1 minus the reference Gini coefficient,
   for every profit vector with non-negative entries and positive sum. *)
C6_FairnessIsOneMinusGini ==
    (prog = "fairness" /\ pc = "done" /\ SumSeq(profits) > 0) =>
        result.fairness_score = RatSub(RatOne, RefGini(profits))

C6_Witness ==
    /\ prog = "fairness" /\ pc = "done"
    /\ result.kind = "market_lens"
    /\ Len(profits) = 3
    /\ profits[1] > profits[2] /\ profits[2] > profits[3] /\ profits[3] > 0
    /\ result.fairness_score # RatOne

(* C7: each of the nine controls affects the output of run_simulation: for each
   control there are two calls that differ only in that control, draw the same
   random numbers, and return different tables. *)
C7_EveryControlAffectsOutput ==
    (prog = "controls" /\ pc = "done") =>
        \E a \in ParamCfgs, v \in ControlValues(result.control), tape \in SharedTapes :
            RunSimulation(a, tape) # RunSimulation(SetControl(a, result.control, v), tape)

(* C8: a simulation run is stateless: every call starts from fresh trackers, whatever
   the runs before left behind, and what app.py stores after a run is what
   run_simulation computes from the stored parameters alone. *)
C8_StatelessPerRun ==
    /\ (prog \in {"main", "live"} /\ pc = "loop" /\ r = 0) =>
          /\ active_agents = [i \in Agents(args.n_agents) |-> TRUE]
          /\ profits = Zeros(args.n_agents)
          /\ cvar_risks = Zeros(args.n_agents)
          /\ activity_counts = Zeros(args.n_agents)
          /\ bids_data = <<>>
          /\ round_reports = <<>>
    /\ (prog = "main" /\ session.kind = "state" /\ session.results # None) =>
          \E tape \in [1 .. session.params.n_rounds -> RoundDraws(session.params.n_agents)] :
              session.results[1] = RunSimulation(session.params, tape)

C8_Witness ==
    /\ prog = "main" /\ pc = "loop" /\ r = 0
    /\ session.kind = "state" /\ session.results # None
    /\ \E i \in DOMAIN session.results[1].summary_df :
          session.results[1].summary_df[i].Profit > 0
    /\ session.params # args

(* the rounds in which some dual variable is strictly above the threshold, ascending *)
RECURSIVE RoundsAbove(_, _, _)
RoundsAbove(rows, threshold, k) ==
    IF k > Len(rows) THEN <<>>
    ELSE (IF \E i \in DOMAIN rows[k] : rows[k][i] > 10 * threshold THEN <<k>> ELSE <<>>)
         \o RoundsAbove(rows, threshold, k + 1)

(* C9: the alert rounds shown are exactly the rounds, numbered from 1 in ascending
   order, in which some dual variable is strictly above the alert threshold of the
   run, and "no alerts" is shown exactly when there is none; in governance_in_loop
   and in the Governance section of app.py. *)
C9_AlertRoundsMatchThreshold ==
    /\ (prog = "governance" /\ pc = "done") =>
          /\ result.alert_rounds = RoundsAbove(lambda_trace, args.intervention_threshold, 1)
          /\ (result.banner = "no alerts") <=> (result.alert_rounds = <<>>)
    /\ (prog = "main" /\ pc = "idle" /\ result.kind = "main" /\ result.populated) =>
          /\ result.alert_rounds =
                RoundsAbove([k \in DOMAIN session.results[1].dual_var_df |->
                                session.results[1].dual_var_df[k].row],
                            session.params.alert_threshold, 1)
          /\ (result.banner = "no alerts") <=> (result.alert_rounds = <<>>)

(* C10: on the Live Bidding page, once a reinsurer has withdrawn, every later refresh
   completes without raising an error and leaves that reinsurer withdrawn: its bid
   stays None. *)
C10_WithdrawnStaysWithdrawn ==
    [][(prog = "page" /\ page'.runs = page.runs + 1) =>
          \A k \in DOMAIN page.bids :
              page.bids[k] = None =>
                  /\ ~page'.error
                  /\ page'.bids[k] = None]_vars

(* the entries of the log for one company among the entries a refresh added *)
EntriesOf(added, company) == {j \in DOMAIN added : added[j].company = company}

(* C11: the bid history log is append-only across refreshes: a refresh keeps every
   existing entry in place, adds at the end exactly one entry (time, company, action,
   resulting bid) for every Update and every Withdraw it performed, in company order,
   and adds none for a Hold; a refresh that changes a bid logs it. *)
C11_HistoryAppendOnly ==
    [][(prog = "page" /\ page'.runs = page.runs + 1) =>
          /\ Len(page'.history) >= Len(page.history)
          /\ SubSeq(page'.history, 1, Len(page.history)) = page.history
          /\ LET added == SubSeq(page'.history, Len(page.history) + 1, Len(page'.history))
             IN  IF page'.error
                 THEN added = <<>> /\ page'.bids = page.bids
                 ELSE /\ \A k \in DOMAIN page'.bids :
                            IF page'.performed[k] = "Hold"
                            THEN /\ EntriesOf(added, Reinsurers[k]) = {}
                                 /\ page'.bids[k] = page.bids[k]
                            ELSE \E j \in DOMAIN added :
                                    /\ EntriesOf(added, Reinsurers[k]) = {j}
                                    /\ added[j] = [time |-> page.now,
                                                   company |-> Reinsurers[k],
                                                   action |-> page'.performed[k],
                                                   bid |-> page'.bids[k]]
                      /\ \A i, j \in DOMAIN added :
                            i < j => \E k, m \in DOMAIN page'.bids :
                                        /\ k < m
                                        /\ added[i].company = Reinsurers[k]
                                        /\ added[j].company = Reinsurers[m]]_vars

C11_Witness ==
    /\ prog = "page" /\ ~page.error
    /\ Len(page.history) >= 3
    /\ page.history[1].action = "Withdraw"
    /\ page.history[Len(page.history)].action = "Withdraw"
    /\ page.history[Len(page.history)].company = page.history[1].company
    /\ page.history[Len(page.history)].time > page.history[1].time
    /\ \E k \in DOMAIN page.performed : page.performed[k] = "Hold"

(* C12: the bidding window of the Live Bidding page is 3 minutes, after which bids
   are locked: a refresh that runs once the window has elapsed since start_time
   neither updates nor withdraws any bid. *)
C12_BidsLockedAfterWindow ==
    [][(/\ prog = "page"
        /\ page'.runs = page.runs + 1
        /\ page.now - page.start_time >= WindowSeconds) =>
          /\ page'.bids = page.bids
          /\ page'.history = page.history]_vars

(* C13: in demo_app.py an uploaded file that can be read and has all the columns the
   upload instructions list as required is loaded without the "Failed to load file"
   message, and the Portfolio Metrics tab computes its metrics instead of stopping
   with "Missing required columns". *)
C13_ListedColumnsSuffice ==
    (/\ prog = "demo_app"
     /\ args.uploaded_file # None
     /\ args.uploaded_file[1].readable
     /\ ListedColumns \subseteq args.uploaded_file[1].columns) =>
        /\ \A j \in DOMAIN result.messages : result.messages[j] # "Failed to load file"
        /\ result.metrics.kind = "metrics"

(* C19: in demo_app.py, whenever an upload ends with the "Failed to load file"
   message, session_state['portfolio_df'] is as it was before the upload: the same
   portfolio, or still absent. *)
C19_FailedUploadKeepsPortfolio ==
    [][(/\ prog = "demo_app"
        /\ result'.kind = "demo_app"
        /\ \E j \in DOMAIN result'.messages : result'.messages[j] = "Failed to load file") =>
          session'.portfolio_df = session.portfolio_df]_vars

(* the bids of a row of a bids table *)
RowBids(row) == {row[i].val : i \in {j \in DOMAIN row : ~row[j].nan}}

PaletteOf(kind) == IF kind = "highlight_table" THEN AppPalette ELSE LivePalette

(* C14: in the bidding tables of app.py and live_bidding, in every row: a withdrawn
   (NaN) cell is red, a cell equal to the row's highest bid is green, a cell equal to
   the row's lowest bid and not to the highest is yellow, any other cell is unstyled,
   a row without bids is red throughout, and a row with two distinct bids has a
   green and a yellow cell. *)
C14_RowColours ==
    (prog = "highlight" /\ pc = "styled") =>
        LET pal == PaletteOf(result.kind) IN
        \A k \in DOMAIN bids_data :
            LET row == bids_data[k]
                st == result.styles[k]
                bids == RowBids(row)
            IN  /\ DOMAIN st = DOMAIN row
                /\ \A i \in DOMAIN row :
                      st[i] = IF row[i].nan THEN pal.red
                              ELSE IF row[i].val = SetMax(bids) THEN pal.green
                              ELSE IF row[i].val = SetMin(bids) THEN pal.yellow
                              ELSE pal.none
                /\ bids = {} => \A i \in DOMAIN row : st[i] = pal.red
                /\ Cardinality(bids) >= 2 =>
                      /\ \E i \in DOMAIN row : st[i] = pal.green
                      /\ \E i \in DOMAIN row : st[i] = pal.yellow

C14_Witness ==
    /\ prog = "highlight" /\ pc = "styled"
    /\ result.kind = "highlight_bids"
    /\ Len(bids_data) = 2
    /\ result.styles[1] = <<LivePalette.yellow, LivePalette.none, LivePalette.green>>
    /\ result.styles[2] = <<LivePalette.red, LivePalette.green, LivePalette.red>>

(* C15: with a fixed seed the simulations are deterministic: a run of
   governance_in_loop with the sliders and the Random Seed of the run before shows
   the same lambda table, alert rounds and profits, and a run of market_lens with the
   agents, rounds, volatility and fairness metric of the run before shows the same
   summary and score, whatever state the generator was left in. *)
C15_SeededRunsRepeat ==
    (/\ prog \in {"governance", "market_lens"}
     /\ pc = "done"
     /\ session.kind = "earlier"
     /\ session.args = args) =>
        session.result = result

C15_Witness ==
    /\ prog = "governance" /\ pc = "done"
    /\ session.kind = "earlier"
    /\ session.args = args
    /\ result.alert_rounds # <<>>
    /\ result.lambda_df[1].row[1] # result.lambda_df[1].row[2]

(* C16: in a round of run_simulation or live_bidding in which agent i is withdrawn or
   withdraws (its cell of the round is NaN), its profit, CVaR and activity count are
   left as they were; they change only in a round in which it places a bid, and in
   such a round its activity count grows by exactly 1. *)
C16_WithdrawnAgentUntouched ==
    [][(SimProg /\ r' = r + 1) =>
          \A i \in Agents(args.n_agents) :
              IF bids_data'[r'][i].val.nan
              THEN /\ profits'[i] = profits[i]
                   /\ cvar_risks'[i] = cvar_risks[i]
                   /\ activity_counts'[i] = activity_counts[i]
              ELSE activity_counts'[i] = activity_counts[i] + 1]_vars

C16_Witness ==
    /\ prog = "live" /\ r = 2
    /\ bids_data[1][1].val.nan /\ bids_data[2][1].val.nan
    /\ ~bids_data[1][2].val.nan /\ bids_data[2][2].val.nan
    /\ InList(AgentName[2], round_reports[2].withdrawn)
    /\ profits[1] = 0 /\ activity_counts[1] = 0
    /\ profits[2] > 0 /\ cvar_risks[2] > 0 /\ activity_counts[2] = 1

(* the tables run_simulation has returned have the shapes of its arguments *)
ReturnedShapes ==
    (prog = "app" /\ pc = "done") =>
        /\ r = args.n_rounds
        /\ DOMAIN result.bids_df = 1 .. args.n_rounds
        /\ \A k \in 1 .. args.n_rounds :
              /\ result.bids_df[k].Round = k
              /\ DOMAIN result.bids_df[k].cells = 1 .. args.n_agents
        /\ DOMAIN result.dual_var_df = 1 .. args.n_rounds
        /\ \A k \in 1 .. args.n_rounds :
              /\ result.dual_var_df[k].index = k
              /\ DOMAIN result.dual_var_df[k].row = 1 .. args.n_agents
        /\ DOMAIN result.round_reports = 1 .. args.n_rounds
        /\ \A k \in 1 .. args.n_rounds : result.round_reports[k].round = k
        /\ DOMAIN result.summary_df = 1 .. args.n_agents
        /\ \A i \in 1 .. args.n_agents : result.summary_df[i].Agent = AgentName[i]

(* C17: for n_rounds >= 1 run_simulation terminates after exactly n_rounds rounds and
   returns a bid table with one row per round, numbered 1..n_rounds in ascending
   order, and one cell per agent, a lambda table with n_rounds rows indexed
   1..n_rounds and one column per agent, n_rounds round reports in round order, and
   a summary with one row per agent. *)
C17_TerminatesWithShapes ==
    /\ [](ReturnedShapes /\ r <= args.n_rounds)
    /\ <>(pc = "done")

C17_Witness ==
    /\ prog = "app" /\ pc = "done"
    /\ args.n_rounds = MaxRounds
    /\ result.bids_df[1].cells[1].nan
    /\ ~result.bids_df[1].cells[2].nan
    /\ result.bids_df[MaxRounds].cells[2].nan

-----------------------------------------------------------------------------
(* C18 *)

LiveSide == session.trackers

Withdrawals(reports) == [k \in 1..Len(reports) |-> reports[k].withdrawn]

(* pa and pl are the same amount up to the discount 1 + 0.1 * lam, allowing for
   the last digit kept of each *)
SameUpToDiscount(pa, pl, lam) ==
    /\ pa * (10000 + lam) < (pl + 1) * 10000
    /\ pl * 10000 < (pa + 1) * (10000 + lam)

LastLambdas == lambda_trace'[Len(lambda_trace')]

(* C18: run side by side on the same draws, run_simulation and the loop of
   live_bidding build the same bid table (values and NaN cells), the same
   withdrawn lists, the same activity counts and the same CVaR; the profit added
   in a round by run_simulation is the one added by live_bidding divided by
   1 + 0.1 * lambda *)
C18_SameUpToLambdaDiscount ==
    [][SideRound =>
         /\ bids_data' = LiveSide'.bids_data
         /\ Withdrawals(round_reports') = Withdrawals(LiveSide'.round_reports)
         /\ active_agents' = LiveSide'.active_agents
         /\ activity_counts' = LiveSide'.activity_counts
         /\ cvar_risks' = LiveSide'.cvar_risks
         /\ \A i \in Agents(args.n_agents) :
               SameUpToDiscount(profits'[i] - profits[i],
                                LiveSide'.profits[i] - LiveSide.profits[i],
                                LastLambdas[i])]_vars

(* both loops have run, an agent has withdrawn and the profits differ *)
C18_Witness ==
    /\ prog = "side_by_side" /\ pc = "done"
    /\ \E k \in 1..Len(round_reports) : round_reports[k].withdrawn # <<>>
    /\ \E i \in Agents(args.n_agents) :
          /\ activity_counts[i] > 0
          /\ profits[i] # LiveSide.profits[i]
    /\ result.app.bids_df = result.live.df_live

-----------------------------------------------------------------------------
(* C20 *)

(* the cycle whose call produced a row, from the time it carries *)
CycleOf(row) == row.Time \div SleepSeconds + 1

NewestFirst(bids, k) ==
    \A j \in 1..Len(bids) :
        /\ CycleOf(bids[j]) = k - (j - 1) \div NumBids
        /\ bids[j].index = (j - 1) % NumBids

(* C20: the streaming loop of the Live Treaty Bidding tab runs exactly 10 cycles
   and then stops; after k cycles the table holds min(3k, 30) rows, never more
   than 30, the 3 bids of the latest cycle first and older cycles after them,
   newest to oldest *)
C20_TenCyclesNewestFirst ==
    /\ [](/\ r <= Cycles
          /\ Len(page.bids) = (IF NumBids * r < HeadLimit THEN NumBids * r ELSE HeadLimit)
          /\ Len(page.bids) <= HeadLimit
          /\ NewestFirst(page.bids, r)
          /\ (pc = "done" => r = Cycles))
    /\ <>(pc = "done")
    /\ [][pc = "done" => UNCHANGED <<r, page>>]_vars

(* the loop has ended with 30 rows after rows of older cycles were pushed down *)
C20_Witness ==
    /\ prog = "yc" /\ pc = "done" /\ r = Cycles
    /\ Len(page.bids) = HeadLimit
    /\ CycleOf(page.bids[1]) = Cycles
    /\ CycleOf(page.bids[HeadLimit]) = 1
    /\ page.bids[1].Status # page.bids[NumBids + 1].Status

====
